---- MODULE Spec2Model ----
(***************************************************************************)
(* sortmail: read one mail message from stdin and deliver it to the        *)
(* Maildir mailbox that the configuration assigns to the message's         *)
(* original recipient address (src/sortmail/src/main.rs).                  *)
(*                                                                         *)
(* Text that the program inspects character by character (configuration    *)
(* blobs, addresses, regular expressions, the recipient) is a sequence of  *)
(* one-character strings.  Text it only passes along (mailbox names, path  *)
(* components, messages) is a TLA+ string.                                 *)
(***************************************************************************)
EXTENDS Integers, Sequences, FiniteSets, TLC

VARIABLES
    args,                              \* Args, as parsed from the command line
    pc,                                \* position in sort_message_from_stdin / from_file
    config_file,                       \* the configuration file as read from disk
    maildir,                           \* the PathBuf `maildir`, a sequence of components
    mappings,                          \* the AddressMap `mappings`
    recipient_env,                     \* the value env::var returned for the recipient
    original_recipient_email_address,  \* the normalized recipient
    stdout,                            \* lines printed by println!
    incoming_message_bytes,            \* the message read from stdin
    store,                             \* messages written by Maildir::store_new
    result,                            \* what sort_message_from_stdin returned
    twin                               \* the AddressMap of a second run on the same file

vars == <<args, pc, config_file, maildir, mappings, recipient_env,
          original_recipient_email_address, stdout, incoming_message_bytes,
          store, result, twin>>

(***************************************************************************)
(* Bounds of the model.                                                    *)
(***************************************************************************)
MaxMailboxes == 2       \* tables in one configuration file
MaxBlobLen == 4         \* characters in an exhaustively enumerated blob

(***************************************************************************)
(* str: trim, to_lowercase, split("\n") on ASCII text (the letters A-Z and  *)
(* the whitespace characters space, tab, line feed, carriage return).      *)
(***************************************************************************)
Uppers == <<"A","B","C","D","E","F","G","H","I","J","K","L","M",
            "N","O","P","Q","R","S","T","U","V","W","X","Y","Z">>
Lowers == <<"a","b","c","d","e","f","g","h","i","j","k","l","m",
            "n","o","p","q","r","s","t","u","v","w","x","y","z">>

is_uppercase(c) == \E i \in 1..26 : Uppers[i] = c

char_to_lowercase(c) ==
    IF is_uppercase(c) THEN Lowers[CHOOSE i \in 1..26 : Uppers[i] = c] ELSE c

to_lowercase(s) == [i \in 1..Len(s) |-> char_to_lowercase(s[i])]

is_whitespace(c) == c \in {" ", "\t", "\n", "\r"}

trim(s) ==
    LET keep == {i \in 1..Len(s) : ~is_whitespace(s[i])}
    IN  IF keep = {} THEN <<>>
        ELSE SubSeq(s, CHOOSE i \in keep : \A j \in keep : i <= j,
                       CHOOSE i \in keep : \A j \in keep : i >= j)

\* s.split("\n"): the pieces between newlines, empty pieces included
split_newline(s) ==
    LET RECURSIVE go(_, _, _)
        go(i, cur, acc) ==
            IF i > Len(s) THEN Append(acc, cur)
            ELSE IF s[i] = "\n" THEN go(i + 1, <<>>, Append(acc, cur))
            ELSE go(i + 1, Append(cur, s[i]), acc)
    IN  go(1, <<>>, <<>>)

\* the concatenation of a sequence of sequences (flat_map, filter)
RECURSIVE Flatten(_)
Flatten(seqs) ==
    IF seqs = <<>> THEN <<>> ELSE Head(seqs) \o Flatten(Tail(seqs))

(***************************************************************************)
(* Config file: deserialize_email_addresses_separated_by_newlines.         *)
(***************************************************************************)
normalize_line(addr) == to_lowercase(trim(addr))

keep_non_empty(lines) ==
    Flatten([i \in 1..Len(lines) |-> IF lines[i] = <<>> THEN <<>> ELSE <<lines[i]>>])

\* the deserializer without its filter: blank lines become empty entries
deserialize_no_filter(s) ==
    LET lines == split_newline(s)
    IN  [i \in 1..Len(lines) |-> normalize_line(lines[i])]

deserialize_email_addresses_separated_by_newlines(s) ==
    LET lines == split_newline(s)
    IN  keep_non_empty([i \in 1..Len(lines) |-> normalize_line(lines[i])])

\* a field of ConfigMailbox: #[serde(default)] makes an absent key an empty Vec
Absent == <<"<absent>">>

deserialize_field(field) ==
    IF field = Absent THEN <<>>
    ELSE deserialize_email_addresses_separated_by_newlines(field)

(***************************************************************************)
(* regex::Regex on the fragment the configurations below use: literal      *)
(* characters, "." , "*" after an item, the anchors "^" and "$", a         *)
(* backslash escaping a punctuation character, and "(" which, with no ")"  *)
(* in the alphabet, is always an unclosed group.                           *)
(***************************************************************************)
RegexItem(kind, ch) == [kind |-> kind, ch |-> ch, star |-> FALSE]

\* Regex::new: the parsed items, or a syntax error
Regex_new(src) ==
    LET RECURSIVE parse(_, _)
        parse(i, items) ==
            IF i > Len(src) THEN [ok |-> TRUE, src |-> src, items |-> items]
            ELSE IF src[i] = "\\" THEN
                IF i = Len(src) THEN [ok |-> FALSE, src |-> src, items |-> <<>>]
                ELSE parse(i + 2, Append(items, RegexItem("lit", src[i + 1])))
            ELSE IF src[i] = "(" THEN [ok |-> FALSE, src |-> src, items |-> <<>>]
            ELSE IF src[i] = "*" THEN
                IF items = <<>> THEN [ok |-> FALSE, src |-> src, items |-> <<>>]
                ELSE parse(i + 1, [items EXCEPT ![Len(items)].star = TRUE])
            ELSE IF src[i] = "^" THEN parse(i + 1, Append(items, RegexItem("start", "")))
            ELSE IF src[i] = "$" THEN parse(i + 1, Append(items, RegexItem("end", "")))
            ELSE IF src[i] = "." THEN parse(i + 1, Append(items, RegexItem("any", "")))
            ELSE parse(i + 1, Append(items, RegexItem("lit", src[i])))
    IN  parse(1, <<>>)

\* does `item` accept the text at offset pos (pos characters already consumed)?
item_accepts(item, text, pos) ==
    CASE item.kind = "start" -> pos = 0
      [] item.kind = "end"   -> pos = Len(text)
      [] item.kind = "any"   -> pos < Len(text) /\ text[pos + 1] # "\n"
      [] OTHER               -> pos < Len(text) /\ text[pos + 1] = item.ch

item_width(item) == IF item.kind \in {"start", "end"} THEN 0 ELSE 1

RECURSIVE match_from(_, _, _, _)
match_from(items, k, text, pos) ==
    IF k > Len(items) THEN TRUE
    ELSE IF items[k].star THEN
        \/ match_from(items, k + 1, text, pos)
        \/ /\ item_width(items[k]) = 1
           /\ item_accepts(items[k], text, pos)
           /\ match_from(items, k, text, pos + 1)
    ELSE /\ item_accepts(items[k], text, pos)
         /\ match_from(items, k + 1, text, pos + item_width(items[k]))

\* Regex::is_match: a match anywhere in the text
is_match(re, text) == \E start \in 0..Len(text) : match_from(re.items, 1, text, start)

(***************************************************************************)
(* The configuration file on disk.  A decodable file is a sequence of      *)
(* tables in the order they are declared; TOML rejects a table declared    *)
(* twice, so the names are distinct.  Each table gives the raw text of     *)
(* `addresses` and of `re_addresses`, or leaves the key out.               *)
(***************************************************************************)
BossAddr    == <<"b","o","s","s","@","c","o",".","c","o","m">>
ListEngAddr == <<"l","i","s","t","-","e","n","g","@","c","o",".","c","o","m">>
RandomAddr  == <<"r","a","n","d","o","m","@","c","o",".","c","o","m">>
OtherAddr   == <<"x","@","y",".","o","r","g">>

ListsPattern    == <<"^","l","i","s","t","-",".","*","@","c","o","\\",".","c","o","m","$">>
CoDomainPattern == <<"@","c","o","\\",".","c","o","m","$">>

TableBodies ==
    { [addresses |-> BossAddr \o <<"\n">>, re_addresses |-> Absent],
      [addresses |-> Absent, re_addresses |-> ListsPattern \o <<"\n">>],
      [addresses |-> <<" ","B","o","s","s","@","C","O",".","c","o","m"," ","\n","\n">>,
       re_addresses |-> CoDomainPattern],
      [addresses |-> ListEngAddr, re_addresses |-> <<"(">>],
      [addresses |-> Absent,
       re_addresses |-> <<"\n"," ","^","L","I","S","T","-"," ","\n">>] }

MailboxNames == <<"Work", "Lists", "Spam">>

MailboxName(i) ==
    IF i <= Len(MailboxNames) THEN MailboxNames[i] ELSE "Mailbox" \o ToString(i)

ConfigPath == "sortmail.toml"

DecodableFile(bodies) ==
    [state |-> "ok",
     tables |-> [i \in 1..Len(bodies) |->
                    [name |-> MailboxName(i),
                     addresses |-> bodies[i].addresses,
                     re_addresses |-> bodies[i].re_addresses]]]

ConfigFiles ==
    { [state |-> "unreadable", tables |-> <<>>],
      [state |-> "undecodable", tables |-> <<>>] }
    \cup { DecodableFile(bodies) :
             bodies \in UNION { [1..n -> TableBodies] : n \in 0..MaxMailboxes } }

TableNames(file) == { file.tables[i].name : i \in 1..Len(file.tables) }

TableOf(file, name) ==
    file.tables[CHOOSE i \in 1..Len(file.tables) : file.tables[i].name = name]

\* toml::from_str::<ConfigToml>: a HashMap from table name to ConfigMailbox
toml_from_str(file) ==
    [name \in TableNames(file) |->
        [addresses    |-> deserialize_field(TableOf(file, name).addresses),
         re_addresses |-> deserialize_field(TableOf(file, name).re_addresses)]]

\* the orders in which a HashMap with these keys may be iterated
IterationOrders(keys) ==
    { order \in [1..Cardinality(keys) -> keys] :
        \A i, j \in 1..Cardinality(keys) : i # j => order[i] # order[j] }

(***************************************************************************)
(* anyhow errors: the chain of contexts, outermost first.                  *)
(***************************************************************************)
\* one context: the message and the values formatted into it, each tagged
\* with what it is (a file path, a pattern, an environment variable)
ErrorContext(msg, names) == [msg |-> msg, names |-> names]

Ok(value) == [ok |-> TRUE, value |-> value, error |-> <<>>]

(***************************************************************************)
(* AddressMap                                                              *)
(***************************************************************************)
EmptyHashMap == [k \in {} |-> ""]

insert(map, key, value) ==
    [k \in DOMAIN map \cup {key} |-> IF k = key THEN value ELSE map[k]]

\* collect::<HashMap<_, _>>: insert the pairs one after the other
RECURSIVE collect_hash_map(_, _)
collect_hash_map(map, pairs) ==
    IF pairs = <<>> THEN map
    ELSE collect_hash_map(insert(map, Head(pairs)[1], Head(pairs)[2]), Tail(pairs))

NoAddressMap ==
    [loaded |-> FALSE,
     exact_address_to_mailbox_name |-> EmptyHashMap,
     address_regex_to_mailbox_name |-> <<>>]

Err(error) == [ok |-> FALSE, value |-> NoAddressMap, error |-> error]

\* AddressMap::from_file, with `order` the iteration order of config_rc
from_file(file, order) ==
    IF file.state = "unreadable" THEN
        Err(<<ErrorContext("Error opening config file", {<<"path", ConfigPath>>})>>)
    ELSE IF file.state = "undecodable" THEN
        Err(<<ErrorContext("Error parsing config file", {<<"path", ConfigPath>>})>>)
    ELSE
        LET config == toml_from_str(file)
            address_and_mailbox(mailbox_name) ==
                [i \in 1..Len(config[mailbox_name].addresses) |->
                    <<config[mailbox_name].addresses[i], mailbox_name>>]
            addresses_to_mailboxes ==
                collect_hash_map(EmptyHashMap,
                    Flatten([n \in 1..Len(order) |-> address_and_mailbox(order[n])]))
            address_regexes_and_mailbox(mailbox_name) ==
                [i \in 1..Len(config[mailbox_name].re_addresses) |->
                    [re |-> Regex_new(config[mailbox_name].re_addresses[i]),
                     mailbox |-> mailbox_name]]
            re_addresses_to_mailboxes ==
                Flatten([n \in 1..Len(order) |-> address_regexes_and_mailbox(order[n])])
            failed == {i \in 1..Len(re_addresses_to_mailboxes) :
                         ~re_addresses_to_mailboxes[i].re.ok}
        IN  IF failed # {} THEN
                LET first == CHOOSE i \in failed : \A j \in failed : i <= j
                IN  Err(<<ErrorContext("Error parsing regular expression",
                           {<<"pattern", re_addresses_to_mailboxes[first].re.src>>})>>)
            ELSE
                Ok([loaded |-> TRUE,
                    exact_address_to_mailbox_name |-> addresses_to_mailboxes,
                    address_regex_to_mailbox_name |-> re_addresses_to_mailboxes])

None == [some |-> FALSE, name |-> ""]
Some(name) == [some |-> TRUE, name |-> name]

first_matching_regex(patterns, address) ==
    LET hits == {i \in 1..Len(patterns) : is_match(patterns[i].re, address)}
    IN  IF hits = {} THEN None
        ELSE Some(patterns[CHOOSE i \in hits : \A j \in hits : i <= j].mailbox)

\* the lookup with the two steps swapped: patterns before the exact map
mailbox_name_for_address_patterns_first(map, address) ==
    LET by_pattern == first_matching_regex(map.address_regex_to_mailbox_name, address)
    IN  IF by_pattern.some THEN by_pattern
        ELSE IF address \in DOMAIN map.exact_address_to_mailbox_name
        THEN Some(map.exact_address_to_mailbox_name[address])
        ELSE None

\* AddressMap::mailbox_name_for_address
mailbox_name_for_address(map, address) ==
    IF address \in DOMAIN map.exact_address_to_mailbox_name
    THEN Some(map.exact_address_to_mailbox_name[address])
    ELSE first_matching_regex(map.address_regex_to_mailbox_name, address)

(***************************************************************************)
(* The process: Args, the environment, stdin and the Maildir store.        *)
(***************************************************************************)
NoneStr == "<none>"                 \* Option::None of a textual option
Missing == <<"<missing>">>          \* env::var found no such variable

HomeDir == "/home/user"
OverrideMaildir == "/srv/mail"
RecipientVariable == "RCPT"

\* Args; print_address_map only writes the map to stderr (dbg!) and is left out
ArgsSet ==
    [config : {ConfigPath},
     dry_run : BOOLEAN,
     override_root_maildir : {NoneStr, OverrideMaildir},
     original_recipient_environment_variable : {NoneStr, RecipientVariable}]

\* values the recipient environment variable may hold
RecipientValues ==
    { BossAddr,
      <<"B","o","s","s","@","C","O",".","C","O","M">>,
      <<" ">> \o BossAddr,
      BossAddr \o <<" ">>,
      ListEngAddr,
      RandomAddr,
      OtherAddr }

\* what stdin may deliver: a read error, no bytes, or a message
StdinError == "<io error>"
StdinInputs == {StdinError, "", "Subject: hello"}

Running == [status |-> "running", error |-> <<>>]
Returned(status, error) == [status |-> status, error |-> error]

\* get_normalized_original_recipient_email_address, given what env::var returned
recipient_variable_name(a) ==
    IF a.original_recipient_environment_variable # NoneStr
    THEN a.original_recipient_environment_variable
    ELSE "ORIGINAL_RECIPIENT"

\* the recipient taken as it is, without to_lowercase
normalize_recipient_unchanged(value) == value

normalize_recipient(value) == to_lowercase(value)

get_normalized_original_recipient_email_address(a, value) ==
    IF value = Missing THEN
        [ok |-> FALSE, value |-> <<>>,
         error |-> <<ErrorContext("Missing environment variable for recipient email address",
                                  {<<"variable", recipient_variable_name(a)>>})>>]
    ELSE [ok |-> TRUE, value |-> normalize_recipient(value), error |-> <<>>]

\* a push that does not look at whether a mailbox was found
push_mailbox_always(path, found) == Append(path, "." \o found.name)

\* maildir.push(format!(".{mailbox_name}"))
push_mailbox(path, found) ==
    IF found.some THEN Append(path, "." \o found.name) ELSE path

Init ==
    /\ args \in ArgsSet
    /\ config_file \in ConfigFiles
    /\ pc = "maildir"
    /\ maildir = <<>>
    /\ mappings = NoAddressMap
    /\ recipient_env = Missing
    /\ original_recipient_email_address = <<>>
    /\ stdout = <<>>
    /\ incoming_message_bytes = ""
    /\ store = <<>>
    /\ result = Running
    /\ twin = NoAddressMap

\* lines 182-191: the root Maildir, from --maildir or from $HOME
RootMaildir ==
    /\ pc = "maildir"
    /\ \E home \in {NoneStr, HomeDir} :
        IF args.override_root_maildir # NoneStr THEN
            /\ maildir' = <<args.override_root_maildir>>
            /\ pc' = "from_file"
            /\ UNCHANGED result
        ELSE IF home = NoneStr THEN
            /\ result' = Returned("err",
                   <<ErrorContext("Unable to find HOME environment variable", {})>>)
            /\ pc' = "done"
            /\ UNCHANGED maildir
        ELSE
            /\ maildir' = <<home, "Maildir">>
            /\ pc' = "from_file"
            /\ UNCHANGED result
    /\ UNCHANGED <<args, config_file, mappings, recipient_env,
                   original_recipient_email_address, stdout,
                   incoming_message_bytes, store, twin>>

\* lines 193-194: AddressMap::from_file, with the context added by the caller
LoadMappings ==
    /\ pc = "from_file"
    /\ \E order \in IterationOrders(TableNames(config_file)) :
        LET loaded == from_file(config_file, order)
        IN  IF loaded.ok THEN
                /\ mappings' = loaded.value
                /\ pc' = "recipient"
                /\ UNCHANGED result
            ELSE
                /\ result' = Returned("err",
                       <<ErrorContext("Error loading config file", {<<"path", args.config>>})>>
                       \o loaded.error)
                /\ pc' = "done"
                /\ UNCHANGED mappings
    /\ UNCHANGED <<args, config_file, maildir, recipient_env,
                   original_recipient_email_address, stdout,
                   incoming_message_bytes, store, twin>>

\* line 203: the recipient, from the environment
GetRecipient ==
    /\ pc = "recipient"
    /\ \E value \in RecipientValues \cup {Missing} :
        LET got == get_normalized_original_recipient_email_address(args, value)
        IN  IF got.ok THEN
                /\ recipient_env' = value
                /\ original_recipient_email_address' = got.value
                /\ pc' = "resolve"
                /\ UNCHANGED result
            ELSE
                /\ result' = Returned("err", got.error)
                /\ pc' = "done"
                /\ UNCHANGED <<recipient_env, original_recipient_email_address>>
    /\ UNCHANGED <<args, config_file, maildir, mappings, stdout,
                   incoming_message_bytes, store, twin>>

\* lines 205-218: resolve the recipient, extend the path, print the decision
ResolveMailbox ==
    /\ pc = "resolve"
    /\ LET found == mailbox_name_for_address(mappings, original_recipient_email_address)
           target == push_mailbox(maildir, found)
       IN  /\ maildir' = target
           /\ stdout' = Append(stdout, [recipient |-> original_recipient_email_address,
                                        deliver_to |-> target,
                                        dry_run |-> args.dry_run])
    /\ pc' = "stdin"
    /\ UNCHANGED <<args, config_file, mappings, recipient_env,
                   original_recipient_email_address, incoming_message_bytes,
                   store, result, twin>>

\* reading the message without the is_empty check of lines 225-228
ReadMessageAnyLength ==
    /\ pc = "stdin"
    /\ \E input \in StdinInputs :
        IF input = StdinError THEN
            /\ result' = Returned("err",
                   <<ErrorContext("Error loading message data from stdin", {})>>)
            /\ pc' = "done"
            /\ UNCHANGED incoming_message_bytes
        ELSE
            /\ incoming_message_bytes' = input
            /\ pc' = "store"
            /\ UNCHANGED result
    /\ UNCHANGED <<args, config_file, maildir, mappings, recipient_env,
                   original_recipient_email_address, stdout, store, twin>>

\* lines 220-228: read the message; an empty message is an error
ReadMessage ==
    /\ pc = "stdin"
    /\ \E input \in StdinInputs :
        IF input = StdinError THEN
            /\ result' = Returned("err",
                   <<ErrorContext("Error loading message data from stdin", {})>>)
            /\ pc' = "done"
            /\ UNCHANGED incoming_message_bytes
        ELSE IF input = "" THEN
            /\ result' = Returned("err",
                   <<ErrorContext("Empty incoming message data", {})>>)
            /\ pc' = "done"
            /\ incoming_message_bytes' = input
        ELSE
            /\ incoming_message_bytes' = input
            /\ pc' = "store"
            /\ UNCHANGED result
    /\ UNCHANGED <<args, config_file, maildir, mappings, recipient_env,
                   original_recipient_email_address, stdout, store, twin>>

\* lines 230-236: store_new unless --dry-run; the store may fail
StoreNew ==
    /\ pc = "store"
    /\ \E written \in BOOLEAN :
        IF args.dry_run THEN
            /\ result' = Returned("ok", <<>>)
            /\ UNCHANGED store
        ELSE IF written THEN
            /\ store' = Append(store, [mailbox |-> maildir,
                                       bytes |-> incoming_message_bytes])
            /\ result' = Returned("ok", <<>>)
        ELSE
            /\ result' = Returned("err",
                   <<ErrorContext("Error saving message to Maildir", {})>>)
            /\ UNCHANGED store
    /\ pc' = "done"
    /\ UNCHANGED <<args, config_file, maildir, mappings, recipient_env,
                   original_recipient_email_address, stdout,
                   incoming_message_bytes, twin>>

Next ==
    \/ RootMaildir
    \/ LoadMappings
    \/ GetRecipient
    \/ ResolveMailbox
    \/ ReadMessage
    \/ StoreNew

Spec == Init /\ [][Next]_vars

(***************************************************************************)
(* AddressMap::from_file on its own: once on every short blob, and twice   *)
(* on the same file (two runs of the program side by side).                *)
(***************************************************************************)
BlobAlphabet == {"a", "B", " ", "\n", "("}

Blobs == UNION { [1..n -> BlobAlphabet] : n \in 0..MaxBlobLen }

BlobFiles ==
    { DecodableFile(<<[addresses |-> blob, re_addresses |-> Absent]>>) : blob \in Blobs }
    \cup
    { DecodableFile(<<[addresses |-> Absent, re_addresses |-> blob]>>) : blob \in Blobs }

DefaultArgs ==
    [config |-> ConfigPath, dry_run |-> FALSE, override_root_maildir |-> NoneStr,
     original_recipient_environment_variable |-> NoneStr]

LoadInit(files) ==
    /\ args = DefaultArgs
    /\ config_file \in files
    /\ pc = "first_run"
    /\ maildir = <<>>
    /\ mappings = NoAddressMap
    /\ recipient_env = Missing
    /\ original_recipient_email_address = <<>>
    /\ stdout = <<>>
    /\ incoming_message_bytes = ""
    /\ store = <<>>
    /\ result = Running
    /\ twin = NoAddressMap

\* one run's AddressMap::from_file
FirstRun ==
    /\ pc = "first_run"
    /\ \E order \in IterationOrders(TableNames(config_file)) :
        LET loaded == from_file(config_file, order)
        IN  /\ mappings' = loaded.value
            /\ result' = IF loaded.ok THEN Returned("ok", <<>>)
                         ELSE Returned("err", loaded.error)
    /\ pc' = "second_run"
    /\ UNCHANGED <<args, config_file, maildir, recipient_env,
                   original_recipient_email_address, stdout,
                   incoming_message_bytes, store, twin>>

\* another run's AddressMap::from_file on the same file
SecondRun ==
    /\ pc = "second_run"
    /\ \E order \in IterationOrders(TableNames(config_file)) :
        twin' = from_file(config_file, order).value
    /\ pc' = "both_run"
    /\ UNCHANGED <<args, config_file, maildir, mappings, recipient_env,
                   original_recipient_email_address, stdout,
                   incoming_message_bytes, store, result>>

BlobInit == LoadInit(BlobFiles)

BlobSpec == BlobInit /\ [][FirstRun]_vars

PairInit == LoadInit(ConfigFiles)

PairNext == FirstRun \/ SecondRun

PairSpec == PairInit /\ [][PairNext]_vars

(***************************************************************************)
(* Vocabulary of the properties.                                           *)
(***************************************************************************)
exact == mappings.exact_address_to_mailbox_name
patterns == mappings.address_regex_to_mailbox_name
tables == config_file.tables

\* ResolveMailbox has run in this execution of sort_message_from_stdin
Resolved == pc \in {"stdin", "store", "done"} /\ stdout # <<>>

\* the root Maildir of a run that got past RootMaildir
RootOf(a) ==
    IF a.override_root_maildir # NoneStr THEN <<a.override_root_maildir>>
    ELSE <<HomeDir, "Maildir">>

SubMailbox(a, name) == RootOf(a) \o <<"." \o name>>

QueryAddresses == RecipientValues \cup { to_lowercase(v) : v \in RecipientValues }

Range(seq) == { seq[i] : i \in 1..Len(seq) }

Least(S) == CHOOSE i \in S : \A j \in S : i <= j
Greatest(S) == CHOOSE i \in S : \A j \in S : i >= j

\* position of a mailbox in the configuration file
DeclaredIndex(name) == CHOOSE i \in 1..Len(tables) : tables[i].name = name

\* tables with a pattern, as compiled into the map, that matches the address
PatternOwners(a) ==
    { i \in 1..Len(tables) :
        \E k \in 1..Len(patterns) :
            patterns[k].mailbox = tables[i].name /\ is_match(patterns[k].re, a) }

\* tables whose addresses, normalized, hold the address
ExactOwners(a) ==
    { i \in 1..Len(tables) : a \in Range(deserialize_field(tables[i].addresses)) }

\* no upper-case letter, no whitespace at either end, at least one character
WellFormed(s) ==
    /\ s # <<>>
    /\ ~is_whitespace(s[1])
    /\ ~is_whitespace(s[Len(s)])
    /\ \A i \in 1..Len(s) : ~is_uppercase(s[i])

\* the same text up to the case of its letters
EqualUpToCase(x, y) ==
    /\ Len(x) = Len(y)
    /\ \A i \in 1..Len(x) :
        \/ x[i] = y[i]
        \/ \E k \in 1..26 : {x[i], y[i]} = {Uppers[k], Lowers[k]}

\* lines of a blob that hold a character other than whitespace, counted by
\* the first such character of each line
NonBlankLineCount(blob) ==
    Cardinality({ p \in 1..Len(blob) :
        /\ ~is_whitespace(blob[p])
        /\ \A q \in 1..(p - 1) :
              (\A r \in q..(p - 1) : blob[r] # "\n") => is_whitespace(blob[q]) })

\* an address as written on a line of the table's `addresses`
WrittenAddresses(i) ==
    IF tables[i].addresses = Absent THEN {}
    ELSE { trim(line) : line \in Range(split_newline(tables[i].addresses)) } \ {<<>>}

OwnersUpToCase(value) ==
    { i \in 1..Len(tables) : \E w \in WrittenAddresses(i) : EqualUpToCase(w, value) }

\* declared patterns that are no regular expression, each with its table
InvalidPatterns ==
    { ip \in UNION { {i} \X Range(deserialize_field(tables[i].re_addresses)) :
                       i \in 1..Len(tables) } :
        ~Regex_new(ip[2]).ok }

ErrorNames(tag, value) ==
    \E i \in 1..Len(result.error) : <<tag, value>> \in result.error[i].names

ExampleFile ==
    DecodableFile(<<[addresses |-> BossAddr \o <<"\n">>, re_addresses |-> Absent],
                    [addresses |-> Absent, re_addresses |-> ListsPattern \o <<"\n">>]>>)

(***************************************************************************)
(* C1.  An address that is a key of the exact map resolves to the mailbox  *)
(* stored under that key, whatever the patterns are and also when a        *)
(* pattern matches the address; the delivery goes to that mailbox.         *)
(***************************************************************************)
C1_ExactMatchTakesPrecedence ==
    mappings.loaded =>
        /\ \A a \in QueryAddresses :
              a \in DOMAIN exact =>
                  mailbox_name_for_address(mappings, a) = Some(exact[a])
        /\ (Resolved /\ original_recipient_email_address \in DOMAIN exact) =>
              maildir = SubMailbox(args, exact[original_recipient_email_address])

C1_Witness ==
    /\ pc = "done"
    /\ Resolved
    /\ original_recipient_email_address \in DOMAIN exact
    /\ \E k \in 1..Len(patterns) :
          /\ is_match(patterns[k].re, original_recipient_email_address)
          /\ patterns[k].mailbox # exact[original_recipient_email_address]
    /\ store # <<>>
    /\ store[1].mailbox = SubMailbox(args, exact[original_recipient_email_address])

(***************************************************************************)
(* C2.  An address that is no exact key and is matched by patterns         *)
(* resolves to the earliest declared mailbox that has a matching pattern,  *)
(* and the pattern list holds the mailboxes in declaration order.          *)
(***************************************************************************)
C2_FirstDeclaredPatternWins ==
    mappings.loaded =>
        /\ \A a \in QueryAddresses :
              (a \notin DOMAIN exact /\ PatternOwners(a) # {}) =>
                  mailbox_name_for_address(mappings, a)
                      = Some(tables[Least(PatternOwners(a))].name)
        /\ \A j, k \in 1..Len(patterns) :
              j < k => DeclaredIndex(patterns[j].mailbox) <= DeclaredIndex(patterns[k].mailbox)

(***************************************************************************)
(* C3.  An exact address declared under several mailboxes belongs, in the  *)
(* exact map, to the mailbox declared last in the configuration.           *)
(***************************************************************************)
C3_LastDeclaredOwnerWins ==
    mappings.loaded =>
        \A a \in DOMAIN exact : exact[a] = tables[Greatest(ExactOwners(a))].name

(***************************************************************************)
(* C4.  Two runs of from_file on the same configuration file give maps     *)
(* that resolve every address alike, with the same pattern list.           *)
(***************************************************************************)
C4_TwoRunsAgree ==
    (pc = "both_run" /\ mappings.loaded /\ twin.loaded) =>
        /\ \A a \in QueryAddresses :
              mailbox_name_for_address(mappings, a) = mailbox_name_for_address(twin, a)
        /\ mappings.address_regex_to_mailbox_name = twin.address_regex_to_mailbox_name

(***************************************************************************)
(* C5.  When a declared pattern is no regular expression, from_file fails: *)
(* the error names the pattern and the mailbox that declares it, no        *)
(* AddressMap exists, nothing is resolved and nothing is stored.           *)
(***************************************************************************)
C5_InvalidPatternErrorNamesPatternAndMailbox ==
    (config_file.state = "ok" /\ InvalidPatterns # {}
        /\ maildir # <<>> /\ pc \notin {"maildir", "from_file"}) =>
        /\ pc = "done"
        /\ result.status = "err"
        /\ ~mappings.loaded
        /\ stdout = <<>>
        /\ store = <<>>
        /\ \E ip \in InvalidPatterns :
              /\ ErrorNames("pattern", ip[2])
              /\ ErrorNames("mailbox", tables[ip[1]].name)

(***************************************************************************)
(* C6.  A recipient that equals, up to the case of letters, an address     *)
(* written in the configuration is delivered to a mailbox that declares    *)
(* that address.                                                           *)
(***************************************************************************)
C6_MatchingIgnoresCase ==
    (Resolved /\ OwnersUpToCase(recipient_env) # {}) =>
        \E i \in OwnersUpToCase(recipient_env) :
            maildir = SubMailbox(args, tables[i].name)

C6_Witness ==
    /\ Resolved
    /\ \E i \in 1..Len(tables) : \E w \in WrittenAddresses(i) :
          /\ EqualUpToCase(w, recipient_env)
          /\ w # recipient_env
          /\ w # to_lowercase(w)
          /\ recipient_env # to_lowercase(recipient_env)
          /\ maildir = SubMailbox(args, tables[i].name)

(***************************************************************************)
(* C7.  The address handed to mailbox_name_for_address is lower-cased and  *)
(* trimmed like a configuration entry, so a recipient that differs from an *)
(* exact address only by surrounding whitespace goes to its mailbox.       *)
(***************************************************************************)
C7_RecipientIsTrimmedAndLowercased ==
    Resolved =>
        /\ stdout[1].recipient = normalize_line(recipient_env)
        /\ \A a \in DOMAIN exact :
              trim(recipient_env) = a => maildir = SubMailbox(args, exact[a])

(***************************************************************************)
(* C8.  Every key of the exact map and every compiled pattern source is    *)
(* non-empty, lower-case and free of surrounding whitespace, and a blob    *)
(* yields as many rules as it has lines that are not blank.                *)
(***************************************************************************)
C8_RulesAreNormalizedNonBlankLines ==
    result.status # "running" =>
        /\ \A key \in DOMAIN exact : WellFormed(key)
        /\ \A k \in 1..Len(patterns) : WellFormed(patterns[k].re.src)
        /\ \A i \in 1..Len(tables) :
              /\ tables[i].addresses # Absent =>
                    /\ Len(toml_from_str(config_file)[tables[i].name].addresses)
                          = NonBlankLineCount(tables[i].addresses)
                    /\ Cardinality(DOMAIN exact) <= NonBlankLineCount(tables[i].addresses)
                    /\ (NonBlankLineCount(tables[i].addresses) > 0) = (DOMAIN exact # {})
              /\ tables[i].re_addresses # Absent =>
                    /\ Len(toml_from_str(config_file)[tables[i].name].re_addresses)
                          = NonBlankLineCount(tables[i].re_addresses)
                    /\ mappings.loaded =>
                          Len(patterns) = NonBlankLineCount(tables[i].re_addresses)

C8_Witness ==
    /\ result.status = "ok"
    /\ Len(tables) = 1
    /\ tables[1].addresses # Absent
    /\ Len(split_newline(tables[1].addresses)) > NonBlankLineCount(tables[1].addresses)
    /\ \E p \in 1..Len(tables[1].addresses) :
          is_uppercase(tables[1].addresses[p])
    /\ is_whitespace(tables[1].addresses[1])
    /\ Cardinality(DOMAIN exact) = 1

(***************************************************************************)
(* C9.  With no exact key and no matching pattern the resolution is "no    *)
(* match", which is no error: the run goes on and delivers to the root     *)
(* path.  With a mailbox N the target is the root path plus ".N".          *)
(***************************************************************************)
NoRuleMatches(a) ==
    /\ a \notin DOMAIN exact
    /\ \A k \in 1..Len(patterns) : ~is_match(patterns[k].re, a)

C10_ErrorsStoreNothing ==
    /\ Len(store) <= 1
    /\ (result.status = "running") = (pc # "done")
    /\ result.status \in {"running", "err"} => store = <<>>
    /\ (/\ pc = "done"
        /\ \/ config_file.state # "ok"
           \/ InvalidPatterns # {}
           \/ recipient_env = Missing
           \/ incoming_message_bytes = "") => result.status = "err"
    /\ store # <<>> =>
          /\ pc = "done"
          /\ ~args.dry_run
          /\ mappings.loaded
          /\ Resolved
          /\ incoming_message_bytes # ""
          /\ store[1].bytes = incoming_message_bytes
          /\ LET found == mailbox_name_for_address(mappings,
                                                   original_recipient_email_address)
             IN  store[1].mailbox =
                     IF found.some THEN SubMailbox(args, found.name) ELSE RootOf(args)

C10_Witness ==
    /\ pc = "done"
    /\ ~args.dry_run
    /\ Resolved
    /\ incoming_message_bytes = ""
    /\ result.status = "err"
    /\ result.error[1].msg = "Empty incoming message data"
    /\ store = <<>>

====
